---- MODULE Spec2Model ----
(***************************************************************************)
(* State-machine model of the signage CMS backend: the Campaign, Asset and *)
(* Playlist collections, the route handlers that write them, and the       *)
(* playlist expansion performed by GET /playlists/:id and by the player    *)
(* routes (two revisions of the player routes are present in the           *)
(* repository: src/routes/player.routes.ts and unnamed/part_006).          *)
(*                                                                         *)
(* Ids are positive integers handed out by counters (an ObjectId is never  *)
(* reused).  An asset's createdAt is the value of the asset counter when   *)
(* it was saved, so creation order is id order.                            *)
(***************************************************************************)
EXTENDS Integers, Sequences, FiniteSets, TLC

VARIABLES
    campaigns,   \* Campaign collection: set of [id, name]
    assets,      \* Asset collection in insertion order: Seq of asset records
    playlists,   \* Playlist collection: set of playlist records
    inflight,    \* requests suspended at an await: set of [op, id, pc]
    nextId,      \* id counters: [campaign, asset, playlist]
    resp,        \* the response sent by the last step taken (op "none" when
                 \* that step sent none)
    displays,    \* Display documents, written by the CMS front end
    logs         \* the playback_logs collection, in insertion order

vars == <<campaigns, assets, playlists, inflight, nextId, resp, displays, logs>>

----------------------------------------------------------------------------
(* Program constants *)

MAX_ASSETS_PER_CAMPAIGN == 9

MAX_CAMPAIGNS_PER_PLAYLIST == 7

\* null / undefined (a missing campaignId, a missing duration, no playlist)
NULL == -1

DEFAULT_IMAGE_DURATION == 10

UPLOAD_VIDEO_DURATION == 1

validTypes == {"IMAGE", "VIDEO", "HTML", "URL"}

----------------------------------------------------------------------------
(* Bounds of the model *)

\* ids handed out to campaigns, assets and playlists in the expansion model
MaxCampaigns == 2

MaxAssets == 3

MaxPlaylists == 1

\* assets ever created in the asset-capacity model (one more than a full campaign)
CapMaxAssets == 10

----------------------------------------------------------------------------
(* Generic helpers *)

Range(s) == {s[i] : i \in 1..Len(s)}

\* JavaScript truthiness of a number-or-null (0 and null are falsy) and of a
\* string ("" is falsy)
Truthy(v) == v # NULL /\ v # 0

TruthyStr(s) == s # ""

\* String.prototype.toUpperCase / toLowerCase on the type strings in use
toUpperCase(t) ==
    CASE t = "image" -> "IMAGE"
      [] t = "video" -> "VIDEO"
      [] t = "html"  -> "HTML"
      [] t = "url"   -> "URL"
      [] OTHER       -> t

toLowerCase(t) ==
    CASE t = "IMAGE" -> "image"
      [] t = "VIDEO" -> "video"
      [] t = "HTML"  -> "html"
      [] t = "URL"   -> "url"
      [] OTHER       -> t

\* String.prototype.trim on the strings in use (" " is a blank url or name,
\* "Promo " a name with a trailing blank)
trim(u) == IF u = " " THEN "" ELSE IF u = "Promo " THEN "Promo" ELSE u

----------------------------------------------------------------------------
(* Responses *)

\* deviceId is set where the request named its target by deviceId alone
\* count and totalAttempted are the numbers a POST /playback/log answer carries
Response(op, status) ==
    [op |-> op, status |-> status, playlistId |-> NULL, field |-> "", items |-> <<>>,
     deviceId |-> "", count |-> NULL, totalAttempted |-> NULL]

ListResponse(op, status, pid, field, items) ==
    [op |-> op, status |-> status, playlistId |-> pid, field |-> field, items |-> items,
     deviceId |-> "", count |-> NULL, totalAttempted |-> NULL]

----------------------------------------------------------------------------
(* Store queries *)

CampaignExists(cid) == \E c \in campaigns : c.id = cid

\* Asset.countDocuments({ campaignId })
countDocuments(cid) == Cardinality({i \in 1..Len(assets) : assets[i].campaignId = cid})

AssetExists(aid) == \E i \in 1..Len(assets) : assets[i].id = aid

AssetById(aid) == assets[CHOOSE i \in 1..Len(assets) : assets[i].id = aid]

NewAsset(type, url, duration, cid) ==
    [id |-> nextId.asset, type |-> type, url |-> url, duration |-> duration,
     campaignId |-> cid, createdAt |-> nextId.asset]

----------------------------------------------------------------------------
(* POST /campaigns *)

PostCampaign(name, maxId) ==
    /\ nextId.campaign <= maxId
    /\ IF name = ""
       THEN /\ resp' = Response("postCampaign", 400)
            /\ UNCHANGED <<campaigns, nextId>>
       ELSE IF \E c \in campaigns : c.name = name
       THEN /\ resp' = Response("postCampaign", 409)
            /\ UNCHANGED <<campaigns, nextId>>
       ELSE /\ campaigns' = campaigns \cup {[id |-> nextId.campaign, name |-> name]}
            /\ nextId' = [nextId EXCEPT !.campaign = @ + 1]
            /\ resp' = Response("postCampaign", 201)
    /\ UNCHANGED <<assets, playlists, inflight, displays, logs>>

----------------------------------------------------------------------------
(* Asset writes *)

\* a count check that lets a tenth asset in
CampaignCheck_OffByOne(cid) ==
    IF cid = NULL THEN 0
    ELSE IF ~CampaignExists(cid) THEN 404
    ELSE IF countDocuments(cid) > MAX_ASSETS_PER_CAMPAIGN THEN 400
    ELSE 0

\* The campaign validation shared by POST /assets and the two upload routes:
\* 0 when the asset may be saved, else the status of the rejection.
CampaignCheck(cid) ==
    IF cid = NULL THEN 0
    ELSE IF ~CampaignExists(cid) THEN 404
    ELSE IF countDocuments(cid) >= MAX_ASSETS_PER_CAMPAIGN THEN 400
    ELSE 0

\* POST /upload/confirm validates only that the campaign exists
ConfirmCampaignCheck(cid) ==
    IF cid = NULL THEN 0
    ELSE IF ~CampaignExists(cid) THEN 404
    ELSE 0

SaveAsset(op, a) ==
    /\ assets' = Append(assets, a)
    /\ nextId' = [nextId EXCEPT !.asset = @ + 1]
    /\ resp' = Response(op, 201)

Reject(op, status) ==
    /\ resp' = Response(op, status)
    /\ UNCHANGED <<assets, nextId>>

\* POST /assets
PostAsset(type, url, duration, cid, maxId) ==
    /\ nextId.asset <= maxId
    /\ IF ~TruthyStr(type) \/ ~TruthyStr(url) THEN Reject("postAsset", 400)
       ELSE IF toUpperCase(type) \notin validTypes THEN Reject("postAsset", 400)
       ELSE IF CampaignCheck(cid) # 0 THEN Reject("postAsset", CampaignCheck(cid))
       ELSE SaveAsset("postAsset",
                NewAsset(toUpperCase(type), url,
                         IF Truthy(duration) THEN duration ELSE NULL, cid))
    /\ UNCHANGED <<campaigns, playlists, inflight, displays, logs>>

\* POST /assets/upload and POST /upload (the same handler in two routers);
\* assetType is getAssetTypeFromMime(file.mimetype), "" for a mime type
\* outside the allow-list
UploadAsset(op, assetType, cid, maxId) ==
    /\ nextId.asset <= maxId
    /\ IF assetType = "" THEN Reject(op, 400)
       ELSE IF CampaignCheck(cid) # 0 THEN Reject(op, CampaignCheck(cid))
       ELSE SaveAsset(op,
                NewAsset(assetType, "http://u",
                         IF assetType = "VIDEO" THEN UPLOAD_VIDEO_DURATION
                                                ELSE DEFAULT_IMAGE_DURATION, cid))
    /\ UNCHANGED <<campaigns, playlists, inflight, displays, logs>>

\* POST /upload/confirm
ConfirmUpload(assetType, url, cid, maxId) ==
    /\ nextId.asset <= maxId
    /\ IF ~TruthyStr(url) \/ ~TruthyStr(assetType) THEN Reject("confirmUpload", 400)
       ELSE IF toUpperCase(assetType) \notin validTypes THEN Reject("confirmUpload", 400)
       ELSE IF ConfirmCampaignCheck(cid) # 0
            THEN Reject("confirmUpload", ConfirmCampaignCheck(cid))
       ELSE SaveAsset("confirmUpload",
                NewAsset(toUpperCase(assetType), url,
                         IF toUpperCase(assetType) = "VIDEO" THEN UPLOAD_VIDEO_DURATION
                                                             ELSE DEFAULT_IMAGE_DURATION, cid))
    /\ UNCHANGED <<campaigns, playlists, inflight, displays, logs>>

\* $set of the update document on one asset
ApplyUpdate(a, upd) ==
    [a EXCEPT !.campaignId = IF "campaignId" \in DOMAIN upd THEN upd.campaignId ELSE @,
              !.duration   = IF "duration" \in DOMAIN upd THEN upd.duration ELSE @,
              !.type       = IF "type" \in DOMAIN upd THEN toUpperCase(upd.type) ELSE @,
              !.url        = IF "url" \in DOMAIN upd THEN upd.url ELSE @]

\* PUT /assets/:id: the status of the response (200 when the update is applied).
\* Reading existingAsset.campaignId.toString() throws when the stored
\* campaignId is null; the catch block answers 500.
PutAssetStatus(aid, upd) ==
    IF ~AssetExists(aid) THEN 404
    ELSE IF "campaignId" \in DOMAIN upd /\ Truthy(upd.campaignId)
            /\ AssetById(aid).campaignId = NULL THEN 500
    ELSE IF "campaignId" \in DOMAIN upd /\ Truthy(upd.campaignId)
            /\ upd.campaignId # AssetById(aid).campaignId
            /\ ~CampaignExists(upd.campaignId) THEN 404
    ELSE IF "campaignId" \in DOMAIN upd /\ Truthy(upd.campaignId)
            /\ upd.campaignId # AssetById(aid).campaignId
            /\ countDocuments(upd.campaignId) >= MAX_ASSETS_PER_CAMPAIGN THEN 400
    ELSE IF "type" \in DOMAIN upd /\ TruthyStr(upd.type)
            /\ toUpperCase(upd.type) \notin validTypes THEN 400
    \* runValidators: url and type are required; the catch block answers 500
    ELSE IF "url" \in DOMAIN upd /\ upd.url = "" THEN 500
    ELSE IF "type" \in DOMAIN upd /\ upd.type = "" THEN 500
    ELSE 200

PutAsset(aid, upd) ==
    /\ resp' = Response("putAsset", PutAssetStatus(aid, upd))
    /\ assets' = IF PutAssetStatus(aid, upd) = 200
                 THEN [i \in 1..Len(assets) |->
                          IF assets[i].id = aid THEN ApplyUpdate(assets[i], upd)
                                                ELSE assets[i]]
                 ELSE assets
    /\ UNCHANGED <<campaigns, playlists, inflight, nextId, displays, logs>>

----------------------------------------------------------------------------
(* Playlist writes *)

validStatuses == {"active", "inactive", "scheduled"}

\* mongoose.Types.ObjectId.isValid: 0 stands for a malformed id string
isValid(id) == id >= 1

PlaylistExists(pid) == \E p \in playlists : p.id = pid

PlaylistById(pid) == CHOOSE p \in playlists : p.id = pid

\* Asset.find({ _id, campaignId: null }) finds the asset
DirectAssetExists(aid) == \E i \in 1..Len(assets) : assets[i].id = aid /\ assets[i].campaignId = NULL

\* the ids extracted from a request's list: malformed ones are filtered out
extractedIds(ids) == SelectSeq(ids, isValid)

ReplacePlaylist(p) == {q \in playlists : q.id # p.id} \cup {p}

\* PlaylistSchema.pre("save")
PreSaveOk(p) == Len(p.campaignIds) <= 7

\* POST /playlists: the status of the response
PostPlaylistStatus(name, status, cids, aids) ==
    IF name = "" THEN 400
    ELSE IF Len(extractedIds(cids)) > MAX_CAMPAIGNS_PER_PLAYLIST THEN 400
    ELSE IF \E c \in Range(extractedIds(cids)) : ~CampaignExists(c) THEN 404
    ELSE IF \E a \in Range(extractedIds(aids)) : ~DirectAssetExists(a) THEN 404
    ELSE IF status # "" /\ status \notin validStatuses THEN 400
    ELSE 201

PostPlaylist(name, status, cids, aids, maxId) ==
    /\ nextId.playlist <= maxId
    /\ resp' = Response("postPlaylist", PostPlaylistStatus(name, status, cids, aids))
    /\ IF PostPlaylistStatus(name, status, cids, aids) = 201
       THEN /\ playlists' = playlists \cup
                   {[id |-> nextId.playlist,
                     status |-> IF status = "" THEN "inactive" ELSE status,
                     campaignIds |-> extractedIds(cids),
                     assetIds |-> extractedIds(aids),
                     items |-> <<>>]}
            /\ nextId' = [nextId EXCEPT !.playlist = @ + 1]
       ELSE UNCHANGED <<playlists, nextId>>
    /\ UNCHANGED <<campaigns, assets, inflight, displays, logs>>

\* PUT and PATCH without the limit on the number of campaigns
UpdatePlaylistStatus_NoLimit(pid, upd) ==
    IF ~isValid(pid) THEN 400
    ELSE IF ~PlaylistExists(pid) THEN 404
    ELSE IF "status" \in DOMAIN upd /\ upd.status \notin validStatuses THEN 400
    ELSE IF "campaignIds" \in DOMAIN upd
            /\ \E c \in Range(extractedIds(upd.campaignIds)) : ~CampaignExists(c) THEN 404
    ELSE IF "assetIds" \in DOMAIN upd
            /\ \E a \in Range(extractedIds(upd.assetIds)) : ~DirectAssetExists(a) THEN 404
    ELSE 200

\* PUT and PATCH /playlists/:id: the status of the response
UpdatePlaylistStatus(pid, upd) ==
    IF ~isValid(pid) THEN 400
    ELSE IF ~PlaylistExists(pid) THEN 404
    ELSE IF "status" \in DOMAIN upd /\ upd.status \notin validStatuses THEN 400
    ELSE IF "campaignIds" \in DOMAIN upd
            /\ Len(extractedIds(upd.campaignIds)) > MAX_CAMPAIGNS_PER_PLAYLIST THEN 400
    ELSE IF "campaignIds" \in DOMAIN upd
            /\ \E c \in Range(extractedIds(upd.campaignIds)) : ~CampaignExists(c) THEN 404
    ELSE IF "assetIds" \in DOMAIN upd
            /\ \E a \in Range(extractedIds(upd.assetIds)) : ~DirectAssetExists(a) THEN 404
    ELSE 200

\* the $set built by PUT (withItems = FALSE) and by PATCH (withItems = TRUE)
ApplyPlaylistUpdate(p, upd, withItems) ==
    [p EXCEPT
       !.status = IF "status" \in DOMAIN upd THEN upd.status ELSE @,
       !.campaignIds = IF "campaignIds" \in DOMAIN upd
                       THEN extractedIds(upd.campaignIds) ELSE @,
       !.assetIds = IF "assetIds" \in DOMAIN upd THEN extractedIds(upd.assetIds) ELSE @,
       !.items = IF withItems /\ "items" \in DOMAIN upd THEN upd.items ELSE @]

\* findByIdAndUpdate(id, { $set }, { new: true, runValidators: true })
findByIdAndUpdate(pid, upd, withItems) ==
    ReplacePlaylist(ApplyPlaylistUpdate(PlaylistById(pid), upd, withItems))

\* PUT /playlists/:id
PutPlaylist(pid, upd) ==
    /\ resp' = Response("putPlaylist", UpdatePlaylistStatus(pid, upd))
    /\ playlists' = IF UpdatePlaylistStatus(pid, upd) = 200
                    THEN findByIdAndUpdate(pid, upd, FALSE)
                    ELSE playlists
    /\ UNCHANGED <<campaigns, assets, inflight, nextId, displays, logs>>

\* PATCH /playlists/:id
PatchPlaylist(pid, upd) ==
    /\ resp' = Response("patchPlaylist", UpdatePlaylistStatus(pid, upd))
    /\ playlists' = IF UpdatePlaylistStatus(pid, upd) = 200
                    THEN findByIdAndUpdate(pid, upd, TRUE)
                    ELSE playlists
    /\ UNCHANGED <<campaigns, assets, inflight, nextId, displays, logs>>

\* POST /playlists/add-assets: the ids of the request not yet in the list
newIds(ids, existing) == SelectSeq(ids, LAMBDA x : x \notin Range(existing))

AddAssetsStatus(pid, cids, aids) ==
    IF ~isValid(pid) THEN 400
    ELSE IF ~PlaylistExists(pid) THEN 404
    ELSE IF \E c \in Range(cids) : ~isValid(c) THEN 400
    ELSE IF Len(PlaylistById(pid).campaignIds)
              + Len(newIds(cids, PlaylistById(pid).campaignIds))
              > MAX_CAMPAIGNS_PER_PLAYLIST THEN 400
    \* Campaign.find({ _id: { $in } }) returns each stored campaign once
    ELSE IF Cardinality({c \in Range(newIds(cids, PlaylistById(pid).campaignIds)) :
                            CampaignExists(c)})
              # Len(newIds(cids, PlaylistById(pid).campaignIds)) THEN 404
    ELSE IF \E a \in Range(aids) : ~isValid(a) THEN 400
    ELSE IF Cardinality({a \in Range(aids) : DirectAssetExists(a)}) # Len(aids) THEN 400
    ELSE IF ~PreSaveOk([campaignIds |-> PlaylistById(pid).campaignIds
                            \o newIds(cids, PlaylistById(pid).campaignIds)]) THEN 500
    ELSE 200

AddAssets(pid, cids, aids) ==
    /\ resp' = Response("addAssets", AddAssetsStatus(pid, cids, aids))
    /\ playlists' =
         IF AddAssetsStatus(pid, cids, aids) = 200
         THEN ReplacePlaylist(
                [PlaylistById(pid) EXCEPT
                   !.campaignIds = @ \o newIds(cids, @),
                   !.assetIds = @ \o newIds(aids, @)])
         ELSE playlists
    /\ UNCHANGED <<campaigns, assets, inflight, nextId, displays, logs>>

\* POST /playlists/:id/campaigns
AddCampaignStatus(pid, cid) ==
    IF ~isValid(pid) \/ ~isValid(cid) THEN 400
    ELSE IF ~PlaylistExists(pid) THEN 404
    ELSE IF ~CampaignExists(cid) THEN 404
    ELSE IF Len(PlaylistById(pid).campaignIds) >= MAX_CAMPAIGNS_PER_PLAYLIST THEN 400
    ELSE IF cid \in Range(PlaylistById(pid).campaignIds) THEN 400
    ELSE IF ~PreSaveOk([campaignIds |-> Append(PlaylistById(pid).campaignIds, cid)]) THEN 500
    ELSE 200

AddCampaign(pid, cid) ==
    /\ resp' = Response("addCampaign", AddCampaignStatus(pid, cid))
    /\ playlists' =
         IF AddCampaignStatus(pid, cid) = 200
         THEN ReplacePlaylist([PlaylistById(pid) EXCEPT !.campaignIds = Append(@, cid)])
         ELSE playlists
    /\ UNCHANGED <<campaigns, assets, inflight, nextId, displays, logs>>

\* a POST /playlists/:id/assets that accepts any stored asset
AddAssetStatus_AnyAsset(pid, aid) ==
    IF ~isValid(pid) THEN 400
    ELSE IF aid = NULL \/ ~isValid(aid) THEN 400
    ELSE IF ~PlaylistExists(pid) THEN 404
    ELSE IF ~AssetExists(aid) THEN 404
    ELSE IF aid \in Range(PlaylistById(pid).assetIds) THEN 400
    ELSE 200

\* POST /playlists/:id/assets
AddAssetStatus(pid, aid) ==
    IF ~isValid(pid) THEN 400
    ELSE IF aid = NULL \/ ~isValid(aid) THEN 400
    ELSE IF ~PlaylistExists(pid) THEN 404
    ELSE IF ~DirectAssetExists(aid) THEN 404
    ELSE IF aid \in Range(PlaylistById(pid).assetIds) THEN 400
    ELSE IF ~PreSaveOk(PlaylistById(pid)) THEN 500
    ELSE 200

AddAsset(pid, aid) ==
    /\ resp' = Response("addAsset", AddAssetStatus(pid, aid))
    /\ playlists' =
         IF AddAssetStatus(pid, aid) = 200
         THEN ReplacePlaylist([PlaylistById(pid) EXCEPT !.assetIds = Append(@, aid)])
         ELSE playlists
    /\ UNCHANGED <<campaigns, assets, inflight, nextId, displays, logs>>

----------------------------------------------------------------------------
(* Playlist expansion *)

\* a sort whose direction depends on the answer sent before
RECURSIVE sortCreatedAt_Alternating(_)
sortCreatedAt_Alternating(S) ==
    IF S = {} THEN <<>>
    ELSE LET first == IF resp.items = <<>>
                      THEN CHOOSE a \in S : \A b \in S : a.createdAt <= b.createdAt
                      ELSE CHOOSE a \in S : \A b \in S : a.createdAt >= b.createdAt
         IN <<first>> \o sortCreatedAt_Alternating(S \ {first})

\* .sort({ createdAt: 1 }) of a set of asset documents
RECURSIVE sortCreatedAt(_)
sortCreatedAt(S) ==
    IF S = {} THEN <<>>
    ELSE LET first == CHOOSE a \in S : \A b \in S : a.createdAt <= b.createdAt
         IN <<first>> \o sortCreatedAt(S \ {first})

\* the assets of a campaign, newest first
RECURSIVE Reverse(_)
Reverse(l) == IF l = <<>> THEN <<>> ELSE Append(Reverse(Tail(l)), Head(l))

findByCampaign_NewestFirst(cid) ==
    Reverse(sortCreatedAt({a \in Range(assets) : a.campaignId = cid}))

\* Asset.find({ campaignId }).sort({ createdAt: 1 })
findByCampaign(cid) == sortCreatedAt({a \in Range(assets) : a.campaignId = cid})

\* Asset.find({ _id: { $in: ids } }).sort({ createdAt: 1 })
findByIds(ids) == sortCreatedAt({a \in Range(assets) : a.id \in Range(ids)})

\* an entry of finalAssets built from a campaign asset or a direct asset
finalAsset(asset) ==
    [assetId |-> asset.id,
     type |-> IF TruthyStr(asset.type) THEN asset.type ELSE "IMAGE",
     url |-> asset.url,
     duration |-> IF Truthy(asset.duration) THEN asset.duration
                  ELSE IF asset.type = "VIDEO" THEN 0 ELSE DEFAULT_IMAGE_DURATION]

\* an entry of finalAssets built from a legacy item
legacyAsset(asset, item) ==
    [assetId |-> asset.id,
     type |-> asset.type,
     url |-> asset.url,
     duration |-> IF Truthy(item.duration) THEN item.duration ELSE asset.duration]

\* the accumulator of an expansion: the list built so far and seenAssetIds
EmptyAcc == [out |-> <<>>, seen |-> {}]

\* for (const asset of assets) { if (!seenAssetIds.has(id)) { add; push } }
RECURSIVE pushFinalAssets(_, _)
pushFinalAssets(acc, list) ==
    IF list = <<>> THEN acc
    ELSE pushFinalAssets(
           IF Head(list).id \in acc.seen THEN acc
           ELSE [out |-> Append(acc.out, finalAsset(Head(list))),
                 seen |-> acc.seen \cup {Head(list).id}],
           Tail(list))

\* the loop over playlist.campaignIds of expandPlaylistAssets
RECURSIVE expandCampaigns(_, _)
expandCampaigns(acc, cids) ==
    IF cids = <<>> THEN acc
    ELSE expandCampaigns(
           IF ~isValid(Head(cids)) \/ ~CampaignExists(Head(cids)) THEN acc
           ELSE pushFinalAssets(acc, findByCampaign(Head(cids))),
           Tail(cids))

\* the loop over playlist.items of expandPlaylistAssets
RECURSIVE expandLegacy(_, _)
expandLegacy(acc, items) ==
    IF items = <<>> THEN acc
    ELSE expandLegacy(
           IF ~AssetExists(Head(items).assetId) \/ Head(items).assetId \in acc.seen THEN acc
           ELSE [out |-> Append(acc.out, legacyAsset(AssetById(Head(items).assetId), Head(items))),
                 seen |-> acc.seen \cup {Head(items).assetId}],
           Tail(items))

\* finalAssets of expandPlaylistAssets(playlist)
expandPlaylistAssets(playlist) ==
    LET resolved == pushFinalAssets(expandCampaigns(EmptyAcc, playlist.campaignIds),
                                    findByIds(playlist.assetIds))
    IN IF Len(resolved.out) = 0 /\ Len(playlist.items) > 0
       THEN expandLegacy(resolved, playlist.items).out
       ELSE resolved.out

\* GET /playlists/:id
GetPlaylist(pid) ==
    /\ resp' = IF ~isValid(pid) THEN Response("getPlaylist", 400)
               ELSE IF ~PlaylistExists(pid) THEN Response("getPlaylist", 404)
               ELSE ListResponse("getPlaylist", 200, pid, "assets",
                                 expandPlaylistAssets(PlaylistById(pid)))
    /\ UNCHANGED <<campaigns, assets, playlists, inflight, nextId, displays, logs>>

----------------------------------------------------------------------------
(* Player routes: the strict format *)

\* Math.max(0, duration)
Max0(d) == IF d < 0 THEN 0 ELSE d

\* durationOverride ?? asset.duration ?? (asset.type === "VIDEO" ? 0 : 10)
effectiveDuration(asset, durationOverride) ==
    IF durationOverride # NULL THEN durationOverride
    ELSE IF asset.duration # NULL THEN asset.duration
    ELSE IF asset.type = "VIDEO" THEN 0 ELSE DEFAULT_IMAGE_DURATION

\* formatAsset without the check of the media type
formatAsset_AnyType(asset, durationOverride) ==
    IF ~TruthyStr(asset.type) \/ ~TruthyStr(asset.url) THEN <<>>
    ELSE IF trim(asset.url) = "" THEN <<>>
    ELSE <<[assetId |-> asset.id,
            type |-> toLowerCase(asset.type),
            url |-> trim(asset.url),
            duration |-> Max0(effectiveDuration(asset, durationOverride))]>>

\* formatAsset(asset, durationOverride): the list holding the formatted asset,
\* empty where the code returns null
formatAsset(asset, durationOverride) ==
    IF ~TruthyStr(asset.type) \/ ~TruthyStr(asset.url) THEN <<>>
    ELSE IF toLowerCase(asset.type) \notin {"image", "video"} THEN <<>>
    ELSE IF trim(asset.url) = "" THEN <<>>
    ELSE <<[assetId |-> asset.id,
            type |-> toLowerCase(asset.type),
            url |-> trim(asset.url),
            duration |-> Max0(effectiveDuration(asset, durationOverride))]>>

\* the loops over a list of loaded assets: with seenAssetIds (part_006) the
\* id is added before the asset is formatted; player.routes.ts keeps no set
RECURSIVE pushFormatted(_, _, _)
pushFormatted(acc, list, dedup) ==
    IF list = <<>> THEN acc
    ELSE pushFormatted(
           IF dedup /\ Head(list).id \in acc.seen THEN acc
           ELSE [out |-> acc.out \o formatAsset(Head(list), NULL),
                 seen |-> IF dedup THEN acc.seen \cup {Head(list).id} ELSE acc.seen],
           Tail(list), dedup)

\* the loop over playlist.campaignIds: part_006 loads the campaign and skips
\* a missing one, player.routes.ts loads the assets by campaignId directly
RECURSIVE flattenCampaigns(_, _, _)
flattenCampaigns(acc, cids, checked) ==
    IF cids = <<>> THEN acc
    ELSE flattenCampaigns(
           IF checked /\ (~isValid(Head(cids)) \/ ~CampaignExists(Head(cids))) THEN acc
           ELSE pushFormatted(acc, findByCampaign(Head(cids)), checked),
           Tail(cids), checked)

\* the loop over playlist.items
RECURSIVE flattenLegacy(_, _, _)
flattenLegacy(acc, items, dedup) ==
    IF items = <<>> THEN acc
    ELSE flattenLegacy(
           IF ~AssetExists(Head(items).assetId)
              \/ (dedup /\ Head(items).assetId \in acc.seen) THEN acc
           ELSE [out |-> acc.out \o formatAsset(AssetById(Head(items).assetId),
                                                Head(items).duration),
                 seen |-> IF dedup THEN acc.seen \cup {Head(items).assetId} ELSE acc.seen],
           Tail(items), dedup)

\* flattenedAssets of a player route; checked = TRUE is the revision of
\* part_006 (seenAssetIds and Campaign.findById), FALSE that of
\* player.routes.ts
flattenedAssets(playlist, checked) ==
    LET resolved == pushFormatted(flattenCampaigns(EmptyAcc, playlist.campaignIds, checked),
                                  findByIds(playlist.assetIds), checked)
    IN IF Len(resolved.out) = 0 /\ Len(playlist.items) > 0
       THEN flattenLegacy(resolved, playlist.items, checked).out
       ELSE resolved.out

\* a player route that expands an inactive playlist like an active one
PlayerResponse_NoShortCircuit(op, pid, checked, inactiveField) ==
    IF pid = NULL THEN Response(op, 400)
    ELSE IF ~isValid(pid) THEN Response(op, 400)
    ELSE IF ~PlaylistExists(pid) THEN Response(op, 404)
    ELSE ListResponse(op, 200, pid, "items", flattenedAssets(PlaylistById(pid), checked))

\* the response of a player route once the target playlist id is known;
\* inactiveField is the name of the list in the inactive short-circuit
PlayerResponse(op, pid, checked, inactiveField) ==
    IF pid = NULL THEN Response(op, 400)
    ELSE IF ~isValid(pid) THEN Response(op, 400)
    ELSE IF ~PlaylistExists(pid) THEN Response(op, 404)
    ELSE IF PlaylistById(pid).status = "inactive"
         THEN ListResponse(op, 200, pid, inactiveField, <<>>)
    ELSE ListResponse(op, 200, pid, "items", flattenedAssets(PlaylistById(pid), checked))

\* GET /player/playlist?playlistId= (player.routes.ts)
PlayerPlaylist(pid) ==
    /\ resp' = PlayerResponse("playerPlaylist", pid, FALSE, "assets")
    /\ UNCHANGED <<campaigns, assets, playlists, inflight, nextId, displays, logs>>

\* GET /player/playlist/:id (player.routes.ts)
PlayerPlaylistById(pid) ==
    /\ resp' = PlayerResponse("playerPlaylistById", pid, FALSE, "items")
    /\ UNCHANGED <<campaigns, assets, playlists, inflight, nextId, displays, logs>>

\* GET /player/playlist?playlistId= (part_006)
Part006Playlist(pid) ==
    /\ resp' = PlayerResponse("part006Playlist", pid, TRUE, "items")
    /\ UNCHANGED <<campaigns, assets, playlists, inflight, nextId, displays, logs>>

\* GET /player/playlist/:id (part_006)
Part006PlaylistById(pid) ==
    /\ resp' = PlayerResponse("part006PlaylistById", pid, TRUE, "items")
    /\ UNCHANGED <<campaigns, assets, playlists, inflight, nextId, displays, logs>>

----------------------------------------------------------------------------
(* DELETE /campaigns/:id, one step per storage call                         *)

NoResponse == Response("none", 0)

\* Campaign.findById(id)
DeleteCampaignFind(cid) ==
    /\ inflight = {}
    /\ IF ~isValid(cid) THEN resp' = Response("deleteCampaign", 400) /\ inflight' = inflight
       ELSE IF ~CampaignExists(cid)
            THEN resp' = Response("deleteCampaign", 404) /\ inflight' = inflight
       ELSE resp' = NoResponse /\ inflight' = {[op |-> "deleteCampaign", id |-> cid, pc |-> "findOne"]}
    /\ UNCHANGED <<campaigns, assets, playlists, nextId, displays, logs>>

\* a delete that sees no playlist using the campaign
playlistsUsingCampaign_None(cid) == FALSE

\* Playlist.findOne({ campaignIds: id }) finds a playlist
playlistsUsingCampaign(cid) == \E p \in playlists : cid \in Range(p.campaignIds)

\* the referential guard of DELETE /campaigns/:id
DeleteCampaignGuard ==
    \E r \in inflight :
      /\ r.op = "deleteCampaign" /\ r.pc = "findOne"
      /\ IF playlistsUsingCampaign(r.id)
         THEN resp' = Response("deleteCampaign", 400) /\ inflight' = inflight \ {r}
         ELSE resp' = NoResponse /\ inflight' = (inflight \ {r}) \cup {[r EXCEPT !.pc = "deleteMany"]}
      /\ UNCHANGED <<campaigns, assets, playlists, nextId, displays, logs>>

\* Asset.deleteMany({ campaignId: id })
DeleteCampaignAssets ==
    \E r \in inflight :
      /\ r.op = "deleteCampaign" /\ r.pc = "deleteMany"
      /\ assets' = SelectSeq(assets, LAMBDA a : a.campaignId # r.id)
      /\ inflight' = (inflight \ {r}) \cup {[r EXCEPT !.pc = "findByIdAndDelete"]}
      /\ resp' = NoResponse
      /\ UNCHANGED <<campaigns, playlists, nextId, displays, logs>>

\* Campaign.findByIdAndDelete(id) and the response
DeleteCampaignFinish ==
    \E r \in inflight :
      /\ r.op = "deleteCampaign" /\ r.pc = "findByIdAndDelete"
      /\ campaigns' = {c \in campaigns : c.id # r.id}
      /\ inflight' = inflight \ {r}
      /\ resp' = Response("deleteCampaign", 200)
      /\ UNCHANGED <<assets, playlists, nextId, displays, logs>>

----------------------------------------------------------------------------
(* POST /assets in two steps: the checks, then asset.save()                 *)

\* POST /assets up to the count check (Campaign.findById and
\* Asset.countDocuments, read together); req tells the requests in flight
\* apart
PostAssetCheck(req, type, url, duration, cid, maxInflight) ==
    /\ Cardinality(inflight) < maxInflight
    /\ \A r \in inflight : r.req # req
    /\ IF ~TruthyStr(type) \/ ~TruthyStr(url)
       THEN resp' = Response("postAsset", 400) /\ inflight' = inflight
       ELSE IF toUpperCase(type) \notin validTypes
       THEN resp' = Response("postAsset", 400) /\ inflight' = inflight
       ELSE IF CampaignCheck(cid) # 0
       THEN resp' = Response("postAsset", CampaignCheck(cid)) /\ inflight' = inflight
       ELSE /\ resp' = NoResponse
            /\ inflight' = inflight \cup
                 {[op |-> "postAsset", req |-> req, pc |-> "save", id |-> cid,
                   type |-> toUpperCase(type), url |-> url,
                   duration |-> IF Truthy(duration) THEN duration ELSE NULL]}
    /\ UNCHANGED <<campaigns, assets, playlists, nextId, displays, logs>>

\* a save that counts the assets of the campaign again
PostAssetSave_Recheck(maxId) ==
    \E r \in inflight :
      /\ r.op = "postAsset" /\ r.pc = "save"
      /\ nextId.asset <= maxId
      /\ inflight' = inflight \ {r}
      /\ IF CampaignCheck(r.id) # 0 THEN Reject("postAsset", CampaignCheck(r.id))
         ELSE SaveAsset("postAsset", NewAsset(r.type, r.url, r.duration, r.id))
      /\ UNCHANGED <<campaigns, playlists, displays, logs>>

\* asset.save() and the response
PostAssetSave(maxId) ==
    \E r \in inflight :
      /\ r.op = "postAsset" /\ r.pc = "save"
      /\ nextId.asset <= maxId
      /\ inflight' = inflight \ {r}
      /\ SaveAsset("postAsset", NewAsset(r.type, r.url, r.duration, r.id))
      /\ UNCHANGED <<campaigns, playlists, displays, logs>>

----------------------------------------------------------------------------
(* POST /playlists/:id/campaigns in two steps: the checks on the loaded    *)
(* playlist, then playlist.save()                                           *)

\* POST /playlists/:id/campaigns up to the checks (Playlist.findById and
\* Campaign.findById, read together); the request keeps the campaignIds it
\* loaded
AddCampaignFind(req, pid, cid, maxInflight) ==
    /\ Cardinality(inflight) < maxInflight
    /\ \A r \in inflight : r.req # req
    /\ IF AddCampaignStatus(pid, cid) \notin {200, 500}
       THEN resp' = Response("addCampaign", AddCampaignStatus(pid, cid)) /\ inflight' = inflight
       ELSE /\ resp' = NoResponse
            /\ inflight' = inflight \cup
                 {[op |-> "addCampaign", req |-> req, pc |-> "save", id |-> pid, cid |-> cid,
                   loaded |-> PlaylistById(pid).campaignIds]}
    /\ UNCHANGED <<campaigns, assets, playlists, nextId, displays, logs>>

\* a save that writes the whole array it holds in memory
AddCampaignSave_SetArray ==
    \E r \in inflight :
      /\ r.op = "addCampaign" /\ r.pc = "save"
      /\ inflight' = inflight \ {r}
      /\ IF ~PreSaveOk([campaignIds |-> Append(r.loaded, r.cid)]) \/ ~PlaylistExists(r.id)
         THEN resp' = Response("addCampaign", 500) /\ playlists' = playlists
         ELSE /\ resp' = Response("addCampaign", 200)
              /\ playlists' = ReplacePlaylist([PlaylistById(r.id) EXCEPT
                                                 !.campaignIds = Append(r.loaded, r.cid)])
      /\ UNCHANGED <<campaigns, assets, nextId, displays, logs>>

\* playlist.save(): the pre-save hook sees the array in memory, the store
\* receives the $push of the one new id
AddCampaignSave ==
    \E r \in inflight :
      /\ r.op = "addCampaign" /\ r.pc = "save"
      /\ inflight' = inflight \ {r}
      /\ IF ~PreSaveOk([campaignIds |-> Append(r.loaded, r.cid)]) \/ ~PlaylistExists(r.id)
         THEN resp' = Response("addCampaign", 500) /\ playlists' = playlists
         ELSE /\ resp' = Response("addCampaign", 200)
              /\ playlists' = ReplacePlaylist([PlaylistById(r.id) EXCEPT
                                                 !.campaignIds = Append(@, r.cid)])
      /\ UNCHANGED <<campaigns, assets, nextId, displays, logs>>

----------------------------------------------------------------------------
(* Campaign names: POST /campaigns, POST /campaigns/create and             *)
(* PUT /campaigns/:id, one step per storage call                            *)

\* a store without the unique index on { name, userId }
uniqueIndexViolated_NoIndex(name, userId, exceptId) == FALSE

\* CampaignSchema.index({ name: 1, userId: 1 }, { unique: true }): the write
\* of (name, userId) to the document exceptId throws E11000
uniqueIndexViolated(name, userId, exceptId) ==
    \E c \in campaigns : c.id # exceptId /\ c.name = name /\ c.userId = userId

\* the status of "a campaign with this name already exists": 409 from
\* POST /campaigns and PUT /campaigns/:id, 400 from POST /campaigns/create
nameTaken(op) == IF op = "createCampaign" THEN 400 ELSE 409

\* POST /campaigns (op "postCampaign") and POST /campaigns/create (op
\* "createCampaign") up to Campaign.findOne({ name: trimmedName, userId })
CampaignCreateFind(op, name, userId, maxInflight) ==
    /\ Cardinality(inflight) < maxInflight
    /\ IF ~TruthyStr(name) \/ trim(name) = ""
       THEN resp' = Response(op, 400) /\ inflight' = inflight
       ELSE IF ~TruthyStr(userId)
       THEN resp' = Response(op, 400) /\ inflight' = inflight
       ELSE IF \E c \in campaigns : c.name = trim(name) /\ c.userId = userId
       THEN resp' = Response(op, nameTaken(op)) /\ inflight' = inflight
       ELSE /\ resp' = NoResponse
            /\ inflight' = inflight \cup {[op |-> op, id |-> NULL, name |-> trim(name),
                                           userId |-> userId, pc |-> "save"]}
    /\ UNCHANGED <<campaigns, assets, playlists, nextId, displays, logs>>

\* campaign.save() and the response
CampaignCreateSave(maxId) ==
    \E r \in inflight :
      /\ r.pc = "save"
      /\ nextId.campaign <= maxId
      /\ inflight' = inflight \ {r}
      /\ IF uniqueIndexViolated(r.name, r.userId, NULL)
         THEN /\ resp' = Response(r.op, nameTaken(r.op))
              /\ UNCHANGED <<campaigns, nextId>>
         ELSE /\ campaigns' = campaigns \cup
                                {[id |-> nextId.campaign, name |-> r.name, userId |-> r.userId]}
              /\ nextId' = [nextId EXCEPT !.campaign = @ + 1]
              /\ resp' = Response(r.op, 201)
      /\ UNCHANGED <<assets, playlists, displays, logs>>

\* PUT /campaigns/:id up to Campaign.findOne({ name, userId, _id: { $ne } });
\* hasName: the body carries a name
PutCampaignFind(cid, hasName, name, maxInflight) ==
    /\ Cardinality(inflight) < maxInflight
    /\ IF ~isValid(cid) THEN resp' = Response("putCampaign", 400) /\ inflight' = inflight
       ELSE IF ~CampaignExists(cid)
       THEN resp' = Response("putCampaign", 404) /\ inflight' = inflight
       ELSE LET existingCampaign == CHOOSE c \in campaigns : c.id = cid
            IN IF hasName /\ trim(name) = ""
               THEN resp' = Response("putCampaign", 400) /\ inflight' = inflight
               ELSE IF /\ hasName
                       /\ trim(name) # existingCampaign.name
                       /\ \E c \in campaigns : /\ c.id # cid
                                               /\ c.name = trim(name)
                                               /\ c.userId = existingCampaign.userId
               THEN resp' = Response("putCampaign", 409) /\ inflight' = inflight
               ELSE /\ resp' = NoResponse
                    /\ inflight' = inflight \cup
                         {[op |-> "putCampaign", id |-> cid,
                           name |-> IF hasName THEN trim(name) ELSE "",
                           userId |-> existingCampaign.userId, pc |-> "findByIdAndUpdate"]}
    /\ UNCHANGED <<campaigns, assets, playlists, nextId, displays, logs>>

\* Campaign.findByIdAndUpdate(id, { $set: updateData }) and the response;
\* name "" in the request record stands for an updateData without name
PutCampaignUpdate ==
    \E r \in inflight :
      /\ r.pc = "findByIdAndUpdate"
      /\ inflight' = inflight \ {r}
      /\ IF ~CampaignExists(r.id) \/ r.name = ""
         THEN resp' = Response("putCampaign", 200) /\ campaigns' = campaigns
         ELSE LET stored == CHOOSE c \in campaigns : c.id = r.id
              IN IF uniqueIndexViolated(r.name, stored.userId, r.id)
                 THEN resp' = Response("putCampaign", 409) /\ campaigns' = campaigns
                 ELSE /\ resp' = Response("putCampaign", 200)
                      /\ campaigns' = (campaigns \ {stored})
                                        \cup {[stored EXCEPT !.name = r.name]}
      /\ UNCHANGED <<assets, playlists, nextId, displays, logs>>

----------------------------------------------------------------------------
(* Displays and DELETE /assets/:id *)

\* DELETE /assets/:id: the asset is removed, no playlist is touched
DeleteAsset(aid) ==
    /\ IF ~isValid(aid) THEN resp' = Response("deleteAsset", 400) /\ assets' = assets
       ELSE IF ~AssetExists(aid) THEN resp' = Response("deleteAsset", 404) /\ assets' = assets
       ELSE /\ resp' = Response("deleteAsset", 200)
            /\ assets' = SelectSeq(assets, LAMBDA a : a.id # aid)
    /\ UNCHANGED <<campaigns, playlists, inflight, nextId, displays, logs>>

\* a Display document is stored or re-assigned by the CMS front end; the
\* schema gives status the default "offline", lastActive the time of creation
\* ("created"; "now" is the time of a later request) and totalHours 0, and
\* keeps deviceId unique
SetDisplay(deviceId, pid) ==
    /\ displays' = IF \E d \in displays : d.deviceId = deviceId
                   THEN {IF d.deviceId = deviceId THEN [d EXCEPT !.playlistId = pid] ELSE d :
                           d \in displays}
                   ELSE displays \cup {[deviceId |-> deviceId, playlistId |-> pid,
                                        status |-> "offline", lastActive |-> "created",
                                        totalHours |-> 0]}
    /\ resp' = NoResponse
    /\ UNCHANGED <<campaigns, assets, playlists, inflight, nextId, logs>>

\* Display.findOne({ deviceId }) finds a document
DisplayExists(deviceId) == \E d \in displays : d.deviceId = deviceId

DisplayByDeviceId(deviceId) == CHOOSE d \in displays : d.deviceId = deviceId

\* a player route that never looks the display up
targetPlaylistId_NoLookup(playlistId, deviceId) == playlistId

\* targetPlaylistId of GET /player/playlist; deviceId "" and playlistId NULL
\* are the absent query parameters
targetPlaylistId(playlistId, deviceId) ==
    IF TruthyStr(deviceId) /\ playlistId = NULL
    THEN IF DisplayExists(deviceId) /\ DisplayByDeviceId(deviceId).playlistId # NULL
         THEN DisplayByDeviceId(deviceId).playlistId
         ELSE playlistId
    ELSE playlistId

\* GET /player/playlist?deviceId= (player.routes.ts)
PlayerPlaylistByDevice(deviceId) ==
    /\ resp' = [PlayerResponse("playerPlaylist", targetPlaylistId(NULL, deviceId),
                               FALSE, "assets")
                  EXCEPT !.deviceId = deviceId]
    /\ UNCHANGED <<campaigns, assets, playlists, inflight, nextId, displays, logs>>

\* GET /player/playlist?deviceId= (part_006)
Part006PlaylistByDevice(deviceId) ==
    /\ resp' = [PlayerResponse("part006Playlist", targetPlaylistId(NULL, deviceId),
                               TRUE, "items")
                  EXCEPT !.deviceId = deviceId]
    /\ UNCHANGED <<campaigns, assets, playlists, inflight, nextId, displays, logs>>

\* playlist.items.map(item => ({ assetId: { _id: item.assetId._id, ... },
\* duration: item.duration })) over the populated items
displayItems(items) ==
    [i \in 1..Len(items) |->
       [assetId |-> items[i].assetId,
        type |-> AssetById(items[i].assetId).type,
        url |-> AssetById(items[i].assetId).url,
        duration |-> items[i].duration]]

\* the response of getDisplayByDeviceId: populate leaves null for the
\* playlist or the asset that is not stored, and item.assetId._id on null
\* throws into the catch block
GetDisplayResponse(deviceId) ==
    IF ~DisplayExists(deviceId) THEN Response("getDisplayByDeviceId", 404)
    ELSE LET pid == DisplayByDeviceId(deviceId).playlistId
         IN IF pid = NULL \/ ~PlaylistExists(pid)
            THEN ListResponse("getDisplayByDeviceId", 200, NULL, "playlist", <<>>)
            ELSE IF \E it \in Range(PlaylistById(pid).items) : ~AssetExists(it.assetId)
            THEN Response("getDisplayByDeviceId", 500)
            ELSE ListResponse("getDisplayByDeviceId", 200, pid, "items",
                              displayItems(PlaylistById(pid).items))

\* GET /displays/device/:deviceId; the display is saved as online before
\* the response is built
GetDisplayByDeviceId(deviceId) ==
    /\ resp' = [GetDisplayResponse(deviceId) EXCEPT !.deviceId = deviceId]
    /\ displays' = {IF d.deviceId = deviceId
                     THEN [d EXCEPT !.status = "online", !.lastActive = "now"] ELSE d :
                      d \in displays}
    /\ UNCHANGED <<campaigns, assets, playlists, inflight, nextId, logs>>

\* POST /displays/playback/:deviceId, handled by trackPlayback, which takes
\* deviceId from the body ("" where the body has none, which no display has);
\* findOneAndUpdate sets lastActive and adds 5 to totalHours
TrackPlayback(pathDeviceId, bodyDeviceId, maxHours) ==
    /\ \A d \in displays : d.totalHours < maxHours
    /\ resp' = [Response("trackPlayback", IF DisplayExists(bodyDeviceId) THEN 200 ELSE 404)
                  EXCEPT !.deviceId = pathDeviceId]
    /\ displays' = {IF d.deviceId = bodyDeviceId
                    THEN [d EXCEPT !.lastActive = "now", !.totalHours = @ + 5] ELSE d :
                      d \in displays}
    /\ UNCHANGED <<campaigns, assets, playlists, inflight, nextId, logs>>

----------------------------------------------------------------------------
(* POST /playback/log *)

\* !isNaN(Date.parse(s)) on the time strings in use
validDate(s) == s \in {"2024-01-01T10:00:00Z", "2024-01-01T10:00:30Z"}

\* normalizeLogInput (part_003): the strings are trimmed before validation
normalizeLogInput(log) ==
    [log EXCEPT !.device_id = trim(@), !.asset_id = trim(@)]

\* validateLogEntry(log): the errors of one entry
validateLogEntry(log) ==
    (IF ~TruthyStr(log.device_id) THEN {"device_id"} ELSE {})
    \cup (IF ~TruthyStr(log.asset_id) THEN {"asset_id"} ELSE {})
    \cup (IF ~TruthyStr(log.start_time) \/ ~validDate(log.start_time)
          THEN {"start_time"} ELSE {})
    \cup (IF ~TruthyStr(log.end_time) \/ ~validDate(log.end_time)
          THEN {"end_time"} ELSE {})
    \cup (IF log.duration = NULL \/ log.duration < 0 THEN {"duration"} ELSE {})

\* logs.map(log => ({ device_id: log.device_id.trim(), ... }))
logDocument(log) ==
    [log EXCEPT !.device_id = trim(@), !.asset_id = trim(@)]

\* PlaybackLogSchema: required strings (after the trim setter), required
\* dates, duration required with min 0
schemaValid(doc) ==
    /\ trim(doc.device_id) # ""
    /\ trim(doc.asset_id) # ""
    /\ validDate(doc.start_time)
    /\ validDate(doc.end_time)
    /\ doc.duration # NULL /\ doc.duration >= 0

\* PlaybackLog.insertMany(documents, { ordered: false, lean }): with lean the
\* documents are neither cast nor validated; without it the documents that
\* fail validation are left out and the others are inserted
insertMany(documents, lean) ==
    IF lean THEN documents ELSE SelectSeq(documents, schemaValid)

\* the documents POST /playback/log hands to the store; normalize and lean
\* tell the revisions apart
PostLogDocuments(batch, normalize, lean) ==
    LET entries == IF normalize THEN [i \in 1..Len(batch) |-> normalizeLogInput(batch[i])]
                   ELSE batch
        documents == [i \in 1..Len(entries) |-> logDocument(entries[i])]
    IN IF Len(batch) = 0 THEN <<>>
       ELSE IF \E i \in 1..Len(entries) : validateLogEntry(entries[i]) # {} THEN <<>>
       ELSE insertMany(documents, lean)

\* the documents the store keeps: failed holds the positions of the
\* documents whose write the store refuses
RECURSIVE keepWritten(_, _, _)
keepWritten(documents, failed, i) ==
    IF i > Len(documents) THEN <<>>
    ELSE (IF i \in failed THEN <<>> ELSE <<documents[i]>>)
           \o keepWritten(documents, failed, i + 1)

PostLogInserted(batch, normalize, lean, failed) ==
    keepWritten(PostLogDocuments(batch, normalize, lean), failed, 1)

\* the catch block of POST /playback/log for the error err thrown by
\* insertMany; withTotal: the revision reports totalAttempted
PostLogCatch(op, nInserted, nErrors, err, withTotal) ==
    IF err.code = 11000 THEN Response(op, 409)
    ELSE IF err.name = "BulkWriteError"
    THEN [Response(op, 207) EXCEPT !.count = nInserted,
                                   !.totalAttempted = IF withTotal THEN nInserted + nErrors
                                                      ELSE NULL]
    ELSE Response(op, 500)

\* the response of POST /playback/log
PostLogResponse(op, batch, normalize, lean, failed, err, withTotal) ==
    LET entries == IF normalize THEN [i \in 1..Len(batch) |-> normalizeLogInput(batch[i])]
                   ELSE batch
        documents == PostLogDocuments(batch, normalize, lean)
        inserted == PostLogInserted(batch, normalize, lean, failed)
    IN IF Len(batch) = 0 THEN Response(op, 400)
       ELSE IF \E i \in 1..Len(entries) : validateLogEntry(entries[i]) # {}
       THEN Response(op, 400)
       ELSE IF Len(inserted) = Len(documents)
       THEN [ListResponse(op, 201, NULL, "count", inserted) EXCEPT !.count = Len(inserted)]
       ELSE PostLogCatch(op, Len(inserted), Len(documents) - Len(inserted), err, withTotal)

\* playbackLogs.ts: raw entries, insertMany with lean: true
PostPlaybackLog(batch, failed, err, maxLogs) ==
    /\ Len(logs) + Len(batch) <= maxLogs
    /\ resp' = PostLogResponse("postLog", batch, FALSE, TRUE, failed, err, TRUE)
    /\ logs' = logs \o PostLogInserted(batch, FALSE, TRUE, failed)
    /\ UNCHANGED <<campaigns, assets, playlists, inflight, nextId, displays>>

\* part_002: raw entries in camelCase, insertMany without lean
PostPlaybackLogCamel(batch, failed, err, maxLogs) ==
    /\ Len(logs) + Len(batch) <= maxLogs
    /\ resp' = PostLogResponse("postLogCamel", batch, FALSE, FALSE, failed, err, TRUE)
    /\ logs' = logs \o PostLogInserted(batch, FALSE, FALSE, failed)
    /\ UNCHANGED <<campaigns, assets, playlists, inflight, nextId, displays>>

\* part_003: normalized entries, insertMany without lean; the 207 answer
\* carries count alone
PostPlaybackLogNormalized(batch, failed, err, maxLogs) ==
    /\ Len(logs) + Len(batch) <= maxLogs
    /\ resp' = PostLogResponse("postLogNormalized", batch, TRUE, FALSE, failed, err, FALSE)
    /\ logs' = logs \o PostLogInserted(batch, TRUE, FALSE, failed)
    /\ UNCHANGED <<campaigns, assets, playlists, inflight, nextId, displays>>

----------------------------------------------------------------------------
(* The empty store *)

Init ==
    /\ campaigns = {}
    /\ assets = <<>>
    /\ playlists = {}
    /\ inflight = {}
    /\ nextId = [campaign |-> 1, asset |-> 1, playlist |-> 1]
    /\ resp = NoResponse
    /\ displays = {}
    /\ logs = <<>>

\* the names given to the campaigns, in creation order
CampaignNames ==
    <<"Promo", "Lobby", "Menu", "News", "Sale", "Events", "Safety", "Staff", "Guests", "Other">>

CampaignName(n) == IF n <= Len(CampaignNames) THEN CampaignNames[n] ELSE "Other"

----------------------------------------------------------------------------
(* Asset capacity: the asset-creating routes and PUT /assets/:id, one      *)
(* request at a time, over two campaigns                                    *)

CapCampaigns == 2

\* PUT /assets/:id is tried on the assets with the first CapPutAssets ids
CapPutAssets == 2

\* assets are created as direct assets or in the first campaign; the other
\* campaigns receive assets through PUT /assets/:id
CapCreateIds == {NULL, 1}

CapCampaignIds == {NULL} \cup (1..CapCampaigns)

CapNext ==
    \/ PostCampaign(CampaignName(nextId.campaign), CapCampaigns)
    \/ \E c \in CapCreateIds :
          PostAsset("IMAGE", "http://u", DEFAULT_IMAGE_DURATION, c, CapMaxAssets)
    \/ \E op \in {"uploadAsset", "upload"}, c \in CapCreateIds :
          UploadAsset(op, "IMAGE", c, CapMaxAssets)
    \/ \E c \in CapCreateIds :
          ConfirmUpload("IMAGE", "http://u", c, CapMaxAssets)
    \/ \E a \in 1..CapPutAssets, c \in CapCampaignIds :
          PutAsset(a, [campaignId |-> c])

SpecCap == Init /\ [][CapNext]_vars

\* C1: every campaign holds at most 9 assets after any sequence of asset
\* writes executed one at a time
C1_CampaignCapacity ==
    \A c \in campaigns : countDocuments(c.id) <= MAX_ASSETS_PER_CAMPAIGN

----------------------------------------------------------------------------
(* Playlist capacity: the playlist writes that store campaignIds, one      *)
(* request at a time                                                        *)

\* campaigns that exist in the playlist-capacity model (one more than fit)
PlCampaigns == 8

Prefix(n) == [i \in 1..n |-> i]

\* campaignIds lists sent to POST, PUT and PATCH: empty, a repeated id, a
\* malformed id, and lists around the limit
PlLists ==
    {<<>>, <<1, 1>>, <<0, 2>>} \cup
    {Prefix(n) : n \in (MAX_CAMPAIGNS_PER_PLAYLIST - 2)..PlCampaigns}

\* ids sent to POST /playlists/:id/campaigns and, in pairs, to add-assets
PlAddIds == {0, 1} \cup ((MAX_CAMPAIGNS_PER_PLAYLIST - 1)..PlCampaigns)

PlNext ==
    \/ PostCampaign(CampaignName(nextId.campaign), PlCampaigns)
    \/ \E l \in PlLists : PostPlaylist("Lobby", "active", l, <<>>, MaxPlaylists)
    \/ \E p \in 1..MaxPlaylists, l \in PlLists : PutPlaylist(p, [campaignIds |-> l])
    \/ \E p \in 1..MaxPlaylists, l \in PlLists : PatchPlaylist(p, [campaignIds |-> l])
    \/ \E p \in 1..MaxPlaylists, c \in PlAddIds, d \in PlAddIds :
          AddAssets(p, IF c = d THEN <<c>> ELSE <<c, d>>, <<>>)
    \/ \E p \in 1..MaxPlaylists, c \in PlAddIds : AddCampaign(p, c)

SpecPl == Init /\ [][PlNext]_vars

\* C2: every playlist's campaignIds has length at most 7 after any sequence
\* of playlist writes executed one at a time
C2_PlaylistCapacity ==
    \A p \in playlists : Len(p.campaignIds) <= MAX_CAMPAIGNS_PER_PLAYLIST

\* a playlist holding 7 campaigns has just refused an 8th
C2_Witness ==
    /\ resp.op \in {"addCampaign", "addAssets"}
    /\ resp.status = 400
    /\ \E p \in playlists : Len(p.campaignIds) = MAX_CAMPAIGNS_PER_PLAYLIST

----------------------------------------------------------------------------
(* Expansion order: image assets in campaigns and as direct assets, one     *)
(* playlist, the read routes, and DELETE /campaigns/:id interleaved with    *)
(* the writes                                                               *)

ListOps ==
    {"getPlaylist", "playerPlaylist", "playerPlaylistById",
     "part006Playlist", "part006PlaylistById"}

PlayerOps == ListOps \ {"getPlaylist"}

\* the last step answered a read route with an expanded list
Expanded == resp.op \in ListOps /\ resp.status = 200

\* the playlist, and the stored asset behind the i-th item, of that answer
RespPlaylist == PlaylistById(resp.playlistId)

ItemAsset(i) == AssetById(resp.items[i].assetId)

\* campaignIds lists sent to POST /playlists: a campaign listed twice, and
\* lists in and against creation order
OrdCampaignLists == {<<>>, <<1>>, <<1, 1>>, <<1, 2>>, <<2, 1>>}

\* assetIds lists sent to POST /playlists, in and against creation order
OrdAssetLists == {<<>>, <<1>>, <<2, 1>>, <<3, 2>>}

OrdNext ==
    \/ PostCampaign(CampaignName(nextId.campaign), MaxCampaigns)
    \/ \E c \in {NULL} \cup (1..MaxCampaigns) :
          PostAsset("IMAGE", "http://u", NULL, c, MaxAssets)
    \/ \E cl \in OrdCampaignLists, al \in OrdAssetLists :
          PostPlaylist("Lobby", "active", cl, al, MaxPlaylists)
    \/ \E p \in 1..MaxPlaylists, c \in 1..MaxCampaigns : AddCampaign(p, c)
    \/ \E c \in 1..MaxCampaigns : DeleteCampaignFind(c)
    \/ DeleteCampaignGuard
    \/ DeleteCampaignAssets
    \/ DeleteCampaignFinish
    \/ \E p \in 1..MaxPlaylists : GetPlaylist(p)
    \/ \E p \in 1..MaxPlaylists : PlayerPlaylist(p)
    \/ \E p \in 1..MaxPlaylists : PlayerPlaylistById(p)
    \/ \E p \in 1..MaxPlaylists : Part006Playlist(p)
    \/ \E p \in 1..MaxPlaylists : Part006PlaylistById(p)

SpecOrd == Init /\ [][OrdNext]_vars

\* the position of the first occurrence of x in the list l
IndexOf(l, x) == CHOOSE i \in 1..Len(l) : l[i] = x /\ \A j \in 1..(i - 1) : l[j] # x

\* the i-th item of the answer is an asset of a campaign of the playlist
CampaignItem(i) == ItemAsset(i).campaignId \in Range(RespPlaylist.campaignIds)

\* the i-th item of the answer is a direct asset of the playlist
DirectItem(i) ==
    /\ ~CampaignItem(i)
    /\ resp.items[i].assetId \in Range(RespPlaylist.assetIds)

\* C3: an expanded list holds no asset twice, however often the playlist
\* reaches it (here: through a campaign listed twice)
C3_ExactlyOnce ==
    Expanded =>
      \A i, j \in 1..Len(resp.items) :
         i # j => resp.items[i].assetId # resp.items[j].assetId

\* C4: the items of an expanded list can be cut into one block per entry of
\* campaignIds, in list order, each block holding assets of that campaign
\* oldest first, and every campaign item precedes every other item
C4_CampaignBlocks ==
    Expanded =>
      \E f \in [1..Len(resp.items) -> 0..Len(RespPlaylist.campaignIds)] :
         /\ \A i \in 1..Len(resp.items) :
               IF CampaignItem(i)
               THEN f[i] > 0 /\ RespPlaylist.campaignIds[f[i]] = ItemAsset(i).campaignId
               ELSE f[i] = 0
         /\ \A i, j \in 1..Len(resp.items) :
               (i < j /\ f[j] > 0) =>
                  /\ f[i] > 0
                  /\ f[i] <= f[j]
                  /\ f[i] = f[j] => ItemAsset(i).createdAt < ItemAsset(j).createdAt

\* campaigns listed against creation order, the first one holding two assets,
\* and a direct asset older than the campaign assets: three items answered
C4_Witness ==
    /\ Expanded
    /\ RespPlaylist.campaignIds = <<2, 1>>
    /\ Len(resp.items) = 3
    /\ CampaignItem(1) /\ CampaignItem(2) /\ DirectItem(3)
    /\ ItemAsset(1).campaignId = ItemAsset(2).campaignId
    /\ ItemAsset(3).createdAt < ItemAsset(1).createdAt

\* C5: the direct assets of an expanded list follow the order of assetIds
C5_DirectOrder ==
    Expanded =>
      \A i, j \in 1..Len(resp.items) :
         (i < j /\ DirectItem(i) /\ DirectItem(j)) =>
            IndexOf(RespPlaylist.assetIds, resp.items[i].assetId)
              < IndexOf(RespPlaylist.assetIds, resp.items[j].assetId)

\* C7: for a playlist naming one stored campaign and one id without a stored
\* campaign, the expanded list holds exactly the assets of the stored
\* campaign and the playlist's direct assets
C7_MissingCampaign ==
    (/\ Expanded
     /\ Len(RespPlaylist.campaignIds) = 2
     /\ Cardinality({c \in Range(RespPlaylist.campaignIds) : CampaignExists(c)}) = 1
     /\ Cardinality(Range(RespPlaylist.campaignIds)) = 2)
    =>
      {resp.items[i].assetId : i \in 1..Len(resp.items)}
        = {a.id : a \in {b \in Range(assets) :
                           \/ b.campaignId \in Range(RespPlaylist.campaignIds)
                              /\ CampaignExists(b.campaignId)
                           \/ b.id \in Range(RespPlaylist.assetIds)}}

----------------------------------------------------------------------------
(* Expansion format: assets of several types, urls and durations, an       *)
(* active or inactive playlist with legacy items, and the read routes       *)

FmtCampaigns == 1

FmtAssets == 2

\* bodies sent to POST /assets: an image and a video without duration, an
\* HTML asset, an image whose url is blank
FmtProfiles ==
    {[type |-> "IMAGE", url |-> "http://u", duration |-> NULL],
     [type |-> "VIDEO", url |-> "http://v", duration |-> NULL],
     [type |-> "html", url |-> "http://h", duration |-> 5],
     [type |-> "IMAGE", url |-> " ", duration |-> NULL]}

\* durations sent to PUT /assets/:id (the schema sets no minimum)
FmtDurations == {0, 5, -5}

\* items lists sent to PATCH /playlists/:id, with and without an override
FmtItems ==
    {<<[assetId |-> 2, duration |-> 7]>>, <<[assetId |-> 2, duration |-> NULL]>>}

FmtNext ==
    \/ PostCampaign(CampaignName(nextId.campaign), FmtCampaigns)
    \/ \E pr \in FmtProfiles, c \in {NULL} \cup (1..FmtCampaigns) :
          PostAsset(pr.type, pr.url, pr.duration, c, FmtAssets)
    \/ \E a \in 1..FmtAssets, d \in FmtDurations : PutAsset(a, [duration |-> d])
    \/ \E st \in {"active", "inactive"}, cl \in {<<>>, <<1>>}, al \in {<<>>, <<1>>} :
          PostPlaylist("Lobby", st, cl, al, MaxPlaylists)
    \/ \E p \in 1..MaxPlaylists, it \in FmtItems : PatchPlaylist(p, [items |-> it])
    \/ \E p \in 1..MaxPlaylists : GetPlaylist(p)
    \/ \E p \in 1..MaxPlaylists : PlayerPlaylist(p)
    \/ \E p \in 1..MaxPlaylists : PlayerPlaylistById(p)
    \/ \E p \in 1..MaxPlaylists : Part006Playlist(p)
    \/ \E p \in 1..MaxPlaylists : Part006PlaylistById(p)

SpecFmt == Init /\ [][FmtNext]_vars

\* the campaign step or the direct-asset step of an expansion of the
\* playlist resolves the asset
Resolved(a, playlist) ==
    \/ a.campaignId \in Range(playlist.campaignIds) /\ CampaignExists(a.campaignId)
    \/ a.id \in Range(playlist.assetIds)

\* the strict format keeps the asset
Playable(a) == a.type \in {"IMAGE", "VIDEO"} /\ trim(a.url) # ""

\* C6: a player route asked for an inactive playlist answers 200 with an
\* empty list, whatever the playlist references
C6_InactiveEmpty ==
    (/\ resp.op \in PlayerOps
     /\ Cardinality(playlists) = MaxPlaylists
     /\ \A p \in playlists : p.status = "inactive")
    => (resp.status = 200 /\ resp.items = <<>>)

\* an inactive playlist with a campaign holding a playable asset and with
\* legacy items has been answered by a player route
C6_Witness ==
    /\ resp.op \in PlayerOps
    /\ resp.status = 200
    /\ RespPlaylist.status = "inactive"
    /\ Len(RespPlaylist.items) > 0
    /\ \E a \in Range(assets) : Resolved(a, RespPlaylist) /\ Playable(a)

\* C8: the strict player output holds only IMAGE and VIDEO assets with a
\* non-blank url, and the output of GET /playlists/:id holds every HTML
\* asset the playlist resolves
C8_StrictFilter ==
    /\ (resp.op \in PlayerOps /\ resp.status = 200) =>
          \A i \in 1..Len(resp.items) : Playable(ItemAsset(i))
    /\ (resp.op = "getPlaylist" /\ resp.status = 200) =>
          \A a \in Range(assets) :
             (a.type = "HTML" /\ Resolved(a, RespPlaylist)) =>
                \E i \in 1..Len(resp.items) : resp.items[i].assetId = a.id

\* a player route has answered for an active playlist that resolves an HTML
\* asset and a playable one: the answer holds the playable one alone, the
\* expansion of GET /playlists/:id holds both
C8_Witness ==
    /\ resp.op \in PlayerOps
    /\ resp.status = 200
    /\ Len(resp.items) = 1
    /\ \E a \in Range(assets) :
          /\ a.type = "HTML"
          /\ Resolved(a, RespPlaylist)
          /\ \E i \in 1..Len(expandPlaylistAssets(RespPlaylist)) :
                expandPlaylistAssets(RespPlaylist)[i].assetId = a.id
    /\ Len(expandPlaylistAssets(RespPlaylist)) = 2

\* C9: when the campaign and direct-asset steps resolve at least one asset,
\* every item of the expanded list is one of the resolved assets (no legacy
\* item is emitted)
C9_LegacyOnlyIfEmpty ==
    (Expanded /\ \E a \in Range(assets) : Resolved(a, RespPlaylist))
    => \A i \in 1..Len(resp.items) : Resolved(ItemAsset(i), RespPlaylist)

\* the duration of an asset without override: the explicit one, else 0 for a
\* video and 10 otherwise
ExpectedDuration(a) ==
    IF a.duration # NULL THEN a.duration
    ELSE IF a.type = "VIDEO" THEN 0 ELSE 10

\* C10: every item resolved by the campaign or direct-asset step carries the
\* asset's explicit duration when set (0 included), else 10, or 0 for a
\* video; a legacy item carries its override, or that same value without one
C10_Duration ==
    Expanded =>
      \A i \in 1..Len(resp.items) :
         IF Resolved(ItemAsset(i), RespPlaylist)
         THEN resp.items[i].duration = ExpectedDuration(ItemAsset(i))
         ELSE \E k \in 1..Len(RespPlaylist.items) :
                 /\ RespPlaylist.items[k].assetId = resp.items[i].assetId
                 /\ resp.items[i].duration =
                      IF RespPlaylist.items[k].duration # NULL
                      THEN RespPlaylist.items[k].duration
                      ELSE ExpectedDuration(ItemAsset(i))

----------------------------------------------------------------------------
(* Campaign deletion *)

\* C11: when DELETE /campaigns/:id looks for playlists using the campaign
\* and one playlist's campaignIds holds it, the request ends with 400 and
\* deletes neither the campaign nor any asset
C11_DeleteGuard ==
    [][\A r \in inflight :
          (/\ r.op = "deleteCampaign"
           /\ r.pc = "findOne"
           /\ r \notin inflight'
           /\ \E p \in playlists : r.id \in Range(p.campaignIds))
          => (/\ resp' = Response("deleteCampaign", 400)
              /\ inflight' = inflight \ {r}
              /\ campaigns' = campaigns
              /\ assets' = assets)]_vars

\* a delete has just been refused for a stored campaign that holds an asset
\* and is named by a playlist
C11_Witness ==
    /\ resp = Response("deleteCampaign", 400)
    /\ inflight = {}
    /\ \E p \in playlists, c \in campaigns :
          /\ c.id \in Range(p.campaignIds)
          /\ countDocuments(c.id) > 0

\* C12: once DELETE /campaigns/:id has answered 200 and no request is in
\* flight, no stored asset carries the id of a campaign that is not stored
C12_DeleteCascade ==
    (resp = Response("deleteCampaign", 200) /\ inflight = {})
    => \A a \in Range(assets) : a.campaignId = NULL \/ CampaignExists(a.campaignId)

----------------------------------------------------------------------------
(* Reference validation: the playlist writes over campaigns and assets     *)
(* that exist, do not exist, or belong to a campaign                        *)

RefAssets == 2

\* campaignIds and assetIds lists sent to the playlist writes
RefCampaignLists == {<<>>, <<1>>, <<1, 2>>}

RefAssetLists == {<<>>, <<1>>, <<2>>, <<1, 2>>}

PlaylistWriteOps ==
    {"postPlaylist", "putPlaylist", "patchPlaylist", "addAssets", "addCampaign", "addAsset"}

RefNext ==
    \/ PostCampaign(CampaignName(nextId.campaign), MaxCampaigns)
    \/ \E c \in {NULL, 1} : PostAsset("IMAGE", "http://u", NULL, c, RefAssets)
    \/ \E cl \in RefCampaignLists, al \in RefAssetLists :
          PostPlaylist("Lobby", "active", cl, al, MaxPlaylists)
    \/ \E p \in 1..MaxPlaylists, cl \in RefCampaignLists, al \in RefAssetLists :
          PutPlaylist(p, [campaignIds |-> cl, assetIds |-> al])
    \/ \E p \in 1..MaxPlaylists, cl \in RefCampaignLists, al \in RefAssetLists :
          PatchPlaylist(p, [campaignIds |-> cl, assetIds |-> al])
    \/ \E p \in 1..MaxPlaylists, cl \in RefCampaignLists, al \in RefAssetLists :
          AddAssets(p, cl, al)
    \/ \E p \in 1..MaxPlaylists, c \in 1..MaxCampaigns : AddCampaign(p, c)
    \/ \E p \in 1..MaxPlaylists, a \in 1..RefAssets : AddAsset(p, a)

SpecRef == Init /\ [][RefNext]_vars

\* the playlist with that id before the step, or an empty one
PlaylistBefore(pid) ==
    IF PlaylistExists(pid) THEN PlaylistById(pid)
    ELSE [id |-> pid, status |-> "inactive", campaignIds |-> <<>>, assetIds |-> <<>>,
          items |-> <<>>]

----------------------------------------------------------------------------
(* Full campaigns *)

CreateOps == {"postAsset", "uploadAsset", "upload"}

\* C14: POST /assets, POST /assets/upload and POST /upload either answer 201
\* and append one asset that is direct or whose campaign held fewer than 9
\* assets, or answer an error and leave the Asset collection as it was
C14_FullCampaignRejected ==
    [][resp'.op \in CreateOps =>
          IF resp'.status = 201
          THEN /\ Len(assets') = Len(assets) + 1
               /\ SubSeq(assets', 1, Len(assets)) = assets
               /\ \/ assets'[Len(assets')].campaignId = NULL
                  \/ countDocuments(assets'[Len(assets')].campaignId)
                       < MAX_ASSETS_PER_CAMPAIGN
          ELSE assets' = assets
      ]_vars

\* a creating route has just refused an asset while a campaign holds 9
C14_Witness ==
    /\ resp.op \in CreateOps
    /\ resp.status = 400
    /\ \E c \in campaigns : countDocuments(c.id) = MAX_ASSETS_PER_CAMPAIGN

----------------------------------------------------------------------------
(* Durations *)

\* C15: every item of every expanded list carries a duration that is a
\* number greater than or equal to 0
C15_DurationNonNegative ==
    Expanded =>
      \A i \in 1..Len(resp.items) :
         resp.items[i].duration # NULL /\ resp.items[i].duration >= 0

----------------------------------------------------------------------------
(* Repeated expansion *)

----------------------------------------------------------------------------
(* The strict format as a filter of the rich expansion *)

\* an item the strict format keeps
ItemPlayable(it) == toLowerCase(it.type) \in {"image", "video"} /\ trim(it.url) # ""

\* the asset ids of a list of items, in order
ItemIds(items) == [i \in 1..Len(items) |-> items[i].assetId]

\* C17: the list a player route answers for an active playlist holds the
\* assets of the expansion of GET /playlists/:id without the items of another
\* media type or with a blank url, in the same order
C17_StrictIsFilteredRich ==
    (resp.op \in PlayerOps /\ resp.status = 200 /\ RespPlaylist.status = "active")
    => ItemIds(resp.items)
         = ItemIds(SelectSeq(expandPlaylistAssets(RespPlaylist), ItemPlayable))

----------------------------------------------------------------------------
(* Displays: direct assets and legacy items that are deleted again, two    *)
(* displays, and the routes that answer a playlist's items                  *)

DevAssets == 2

DevDeviceIds == {"dev1", "dev2"}

\* playlist ids a display is assigned: none, the stored one, a deleted one
DevPlaylistIds == {NULL, 1, 2}

DevAssetLists == {<<>>, <<1>>, <<1, 2>>}

DevItems ==
    {<<[assetId |-> 1, duration |-> 7]>>,
     <<[assetId |-> 1, duration |-> 7], [assetId |-> 2, duration |-> NULL]>>}

DevNext ==
    \/ PostAsset("IMAGE", "http://u", NULL, NULL, DevAssets)
    \/ \E a \in 1..DevAssets : DeleteAsset(a)
    \/ \E st \in {"active", "inactive"}, al \in DevAssetLists :
          PostPlaylist("Lobby", st, <<>>, al, MaxPlaylists)
    \/ \E p \in 1..MaxPlaylists, it \in DevItems : PatchPlaylist(p, [items |-> it])
    \/ \E d \in DevDeviceIds, p \in DevPlaylistIds : SetDisplay(d, p)
    \/ \E p \in DevPlaylistIds \ {NULL} : PlayerPlaylist(p)
    \/ \E p \in DevPlaylistIds \ {NULL} : Part006Playlist(p)
    \/ \E d \in DevDeviceIds : PlayerPlaylistByDevice(d)
    \/ \E d \in DevDeviceIds : Part006PlaylistByDevice(d)
    \/ \E p \in 1..MaxPlaylists : GetPlaylist(p)
    \/ \E d \in DevDeviceIds : GetDisplayByDeviceId(d)

SpecDev == Init /\ [][DevNext]_vars

\* C18: a route that answers a playlist's items answers 200 with the items
\* whose asset is stored, also where the playlist names a deleted asset
C18_MissingAssetServed ==
    /\ (resp.op \in ListOps /\ resp.status \notin {400, 404})
       => (resp.status = 200 /\ \A i \in 1..Len(resp.items) : AssetExists(resp.items[i].assetId))
    /\ (resp.op = "getDisplayByDeviceId" /\ DisplayExists(resp.deviceId))
       => /\ resp.status = 200
          /\ LET pid == DisplayByDeviceId(resp.deviceId).playlistId
             IN (pid # NULL /\ PlaylistExists(pid))
                => ItemIds(resp.items)
                     = ItemIds(SelectSeq(PlaylistById(pid).items,
                                         LAMBDA it : AssetExists(it.assetId)))

DeviceOps == {"playerPlaylist", "part006Playlist"}

\* the display of the request has a playlist assigned
Assigned(deviceId) ==
    DisplayExists(deviceId) /\ DisplayByDeviceId(deviceId).playlistId # NULL

\* C19: GET /player/playlist asked by deviceId alone answers for the playlist
\* assigned to that display (404 where that playlist is not stored), and
\* answers 400 exactly when no playlistId is sent and no display with that
\* deviceId has a playlist assigned
C19_DeviceTarget ==
    resp.op \in DeviceOps
    => IF resp.deviceId = "" THEN resp.status # 400
       ELSE /\ resp.status = 400 <=> ~Assigned(resp.deviceId)
            /\ Assigned(resp.deviceId)
               => LET pid == DisplayByDeviceId(resp.deviceId).playlistId
                  IN IF ~PlaylistExists(pid) THEN resp.status = 404
                     ELSE /\ resp.status = 200
                          /\ resp.playlistId = pid
                          /\ resp.items =
                               IF PlaylistById(pid).status = "inactive" THEN <<>>
                               ELSE flattenedAssets(PlaylistById(pid),
                                                    resp.op = "part006Playlist")

\* a device request has been answered with the items of the assigned
\* playlist while the other display has none assigned
C19_Witness ==
    /\ resp.op \in DeviceOps
    /\ resp.deviceId # ""
    /\ resp.status = 200
    /\ Len(resp.items) >= 1
    /\ \E d \in displays : d.deviceId # resp.deviceId /\ d.playlistId = NULL

----------------------------------------------------------------------------
(* Playback logs: batches of one or two entries *)

MaxLogs == 3

\* a valid entry and the entries that differ from it in one field
ValidEntry ==
    [device_id |-> "PLAYER_01", asset_id |-> "video.mp4",
     start_time |-> "2024-01-01T10:00:00Z", end_time |-> "2024-01-01T10:00:30Z",
     duration |-> 30]

LogEntries ==
    {ValidEntry,
     [ValidEntry EXCEPT !.asset_id = "image.png"],
     [ValidEntry EXCEPT !.device_id = " "],
     [ValidEntry EXCEPT !.device_id = ""],
     [ValidEntry EXCEPT !.start_time = "soon"],
     [ValidEntry EXCEPT !.duration = -5],
     [ValidEntry EXCEPT !.duration = NULL]}

LogBatches == {<<>>} \cup {<<e>> : e \in LogEntries} \cup {<<e, f>> : e, f \in LogEntries}

\* the errors insertMany throws when the store refuses a write: a bulk write
\* error (a document the collection rejects) and an error of another name
StoreErrors ==
    {[name |-> "BulkWriteError", code |-> 121],
     [name |-> "MongoNetworkError", code |-> NULL]}

\* positions of the documents whose write fails
LogFailures == SUBSET (1..2)

LogNext ==
    \/ \E b \in LogBatches, f \in LogFailures, e \in StoreErrors :
          PostPlaybackLog(b, f, e, MaxLogs)
    \/ \E b \in LogBatches, f \in LogFailures, e \in StoreErrors :
          PostPlaybackLogCamel(b, f, e, MaxLogs)
    \/ \E b \in LogBatches, f \in LogFailures, e \in StoreErrors :
          PostPlaybackLogNormalized(b, f, e, MaxLogs)

SpecLog == Init /\ [][LogNext]_vars

\* the entry passes the validation of the route and, as the document the
\* route builds from it, that of the schema
EntryValid(e) == validateLogEntry(e) = {} /\ schemaValid(logDocument(e))

\* C20: a batch of POST /playback/log with an entry that fails validation is
\* answered 400 and leaves the playback log as it was
C20_BatchRejected ==
    [][\A b \in LogBatches, f \in LogFailures, e \in StoreErrors :
         (/\ \/ PostPlaybackLog(b, f, e, MaxLogs)
             \/ PostPlaybackLogCamel(b, f, e, MaxLogs)
             \/ PostPlaybackLogNormalized(b, f, e, MaxLogs)
          /\ \E i \in 1..Len(b) : ~EntryValid(b[i]))
         => (resp'.status = 400 /\ logs' = logs)]_vars

\* the store refuses the write at a position of the batch, which holds valid
\* entries only
PartialFailure(b, f) ==
    /\ Len(b) > 0
    /\ \A i \in 1..Len(b) : EntryValid(b[i])
    /\ f \cap (1..Len(b)) # {}

\* C21: when the store refuses some writes of a validated batch with a bulk
\* write error, the answer carries the number inserted, equal to the number of
\* entries of the batch now stored, and the total attempted
C21_PartialReported ==
    [][\A b \in LogBatches, f \in LogFailures, e \in StoreErrors :
         (/\ \/ PostPlaybackLog(b, f, e, MaxLogs)
             \/ PostPlaybackLogCamel(b, f, e, MaxLogs)
             \/ PostPlaybackLogNormalized(b, f, e, MaxLogs)
          /\ PartialFailure(b, f)
          /\ e.name = "BulkWriteError")
         => (/\ resp'.count = Len(logs') - Len(logs)
             /\ resp'.totalAttempted = Len(b))]_vars

----------------------------------------------------------------------------
(* Campaign names: two owners, two requests in flight *)

NameCampaigns == 3

NameInflight == 2

NameInputs == {"Promo", "Promo ", "Lobby", " "}

NameUsers == {"user1", "user2"}

NameNext ==
    \/ \E op \in {"postCampaign", "createCampaign"}, n \in NameInputs, u \in NameUsers :
          CampaignCreateFind(op, n, u, NameInflight)
    \/ CampaignCreateSave(NameCampaigns)
    \/ \E c \in 1..NameCampaigns, h \in BOOLEAN, n \in NameInputs :
          PutCampaignFind(c, h, n, NameInflight)
    \/ PutCampaignUpdate

SpecName == Init /\ [][NameNext]_vars

\* C22: no two stored campaigns of one owner carry the same trimmed name
C22_UniqueNames ==
    \A c, d \in campaigns :
       (c.id # d.id /\ c.userId = d.userId) => trim(c.name) # trim(d.name)

\* a request that found the name free is about to save it while a campaign
\* of that owner with that name has been stored in between, and the other
\* owner holds a campaign of the same name
C22_Witness ==
    /\ \E r \in inflight, c \in campaigns : r.name = c.name /\ r.userId = c.userId /\ r.id # c.id
    /\ \E c, d \in campaigns : c.name = d.name /\ c.userId # d.userId

----------------------------------------------------------------------------
(* Heartbeats: two displays and the two display routes *)

\* totalHours up to which the heartbeat is followed
MaxHours == 15

BeatNext ==
    \/ \E d \in DevDeviceIds, p \in DevPlaylistIds : SetDisplay(d, p)
    \/ \E d \in DevDeviceIds : GetDisplayByDeviceId(d)
    \/ \E d \in DevDeviceIds, b \in DevDeviceIds \cup {""} : TrackPlayback(d, b, MaxHours)

SpecBeat == Init /\ [][BeatNext]_vars

\* C23: a heartbeat answered 200 for the device of the path leaves that
\* display with lastActive set to the time of the call, totalHours raised by
\* 5 and status online
C23_Heartbeat ==
    [][(resp'.op = "trackPlayback" /\ resp'.status = 200)
       => \E d \in displays, e \in displays' :
             /\ d.deviceId = resp'.deviceId /\ e.deviceId = resp'.deviceId
             /\ e.lastActive = "now"
             /\ e.totalHours = d.totalHours + 5
             /\ e.status = "online"]_vars

----------------------------------------------------------------------------
(* Asset capacity under concurrency: one campaign, two POST /assets in      *)
(* flight                                                                   *)

RaceAssets == 10

RaceInflight == 2

RaceNext ==
    \/ PostCampaign(CampaignName(nextId.campaign), 1)
    \/ \E k \in 1..RaceInflight, u \in {"http://u", "http://v"} :
          PostAssetCheck(k, "IMAGE", u, NULL, 1, RaceInflight)
    \/ PostAssetSave(RaceAssets)

SpecRace == Init /\ [][RaceNext]_vars

\* C24: a POST /assets that has passed the count check saves its asset with
\* 201 whatever the campaign holds by then, so two requests that both counted
\* 8 assets leave 10
C24_CheckThenSave ==
    [][\A r \in inflight :
         (r.op = "postAsset" /\ r.pc = "save" /\ r \notin inflight')
         => /\ resp' = Response("postAsset", 201)
            /\ Len(assets') = Len(assets) + 1
            /\ assets'[Len(assets')].campaignId = r.id]_vars

\* the campaign holds 10 assets after the second of two saves
C24_Witness ==
    /\ resp = Response("postAsset", 201)
    /\ inflight = {}
    /\ \E c \in campaigns : countDocuments(c.id) = MAX_ASSETS_PER_CAMPAIGN + 1

----------------------------------------------------------------------------
(* Playlist capacity under concurrency: one playlist, two                   *)
(* POST /playlists/:id/campaigns in flight                                  *)

PlRaceCampaigns == 8

PlRaceInflight == 2

PlRaceNext ==
    \/ PostCampaign(CampaignName(nextId.campaign), PlRaceCampaigns)
    \/ \E n \in {MAX_CAMPAIGNS_PER_PLAYLIST - 2, MAX_CAMPAIGNS_PER_PLAYLIST - 1} :
          PostPlaylist("Lobby", "active", Prefix(n), <<>>, MaxPlaylists)
    \/ \E k \in 1..PlRaceInflight, c \in 1..PlRaceCampaigns :
          AddCampaignFind(k, 1, c, PlRaceInflight)
    \/ AddCampaignSave

SpecPlRace == Init /\ [][PlRaceNext]_vars

\* C25: a POST /playlists/:id/campaigns that has passed the length check on
\* the playlist it loaded, and whose pre-save check passes on that copy, adds
\* its campaign to the stored list whatever that list holds by then, so two
\* requests that both loaded 6 campaigns leave 8
C25_CheckThenPush ==
    [][\A r \in inflight :
         (/\ r.op = "addCampaign" /\ r.pc = "save" /\ r \notin inflight'
          /\ Len(r.loaded) < MAX_CAMPAIGNS_PER_PLAYLIST)
         => /\ resp' = Response("addCampaign", 200)
            /\ \E p \in playlists, q \in playlists' :
                  /\ p.id = r.id /\ q.id = r.id
                  /\ q.campaignIds = Append(p.campaignIds, r.cid)]_vars

\* the playlist holds 8 different campaigns after the second of two saves
C25_Witness ==
    /\ resp = Response("addCampaign", 200)
    /\ inflight = {}
    /\ \E p \in playlists :
          /\ Len(p.campaignIds) = MAX_CAMPAIGNS_PER_PLAYLIST + 1
          /\ Cardinality(Range(p.campaignIds)) = MAX_CAMPAIGNS_PER_PLAYLIST + 1

----------------------------------------------------------------------------
(* Re-assignment of an asset *)

\* C26: PUT /assets/:id with the campaignId of a stored campaign that holds
\* fewer than 9 assets answers 200 and leaves the asset in that campaign,
\* whatever campaignId the asset had, null included
C26_Reassign ==
    [][\A a \in 1..CapPutAssets, c \in 1..CapCampaigns :
         (/\ PutAsset(a, [campaignId |-> c])
          /\ AssetExists(a)
          /\ CampaignExists(c)
          /\ countDocuments(c) < MAX_ASSETS_PER_CAMPAIGN)
         => (/\ resp'.status = 200
             /\ \E i \in 1..Len(assets') : assets'[i].id = a /\ assets'[i].campaignId = c)]_vars

----------------------------------------------------------------------------
(* References kept by the playlists *)

\* C27: with no request in flight, every id in a playlist's campaignIds is
\* the id of a stored campaign
C27_NoDanglingCampaign ==
    inflight = {}
    => \A p \in playlists : \A c \in Range(p.campaignIds) : CampaignExists(c)

\* C28: every id in a playlist's assetIds is the id of a stored asset whose
\* campaignId is null
C28_DirectAssetsOnly ==
    \A p \in playlists : \A a \in Range(p.assetIds) : DirectAssetExists(a)

\* C29: no playlist's campaignIds holds the same id twice
C29_NoDuplicateCampaign ==
    \A p \in playlists : Cardinality(Range(p.campaignIds)) = Len(p.campaignIds)

----------------------------------------------------------------------------
(* The two player routes *)

\* a response without the name of the route that sent it
Body(r) == [r EXCEPT !.op = ""]

\* C30: the answer of GET /player/playlist?playlistId=X is the answer
\* GET /player/playlist/X of the same revision gives on the same store: the
\* same status, playlistId, field name and items
C30_SameResponse ==
    /\ (resp.op = "playerPlaylist" /\ resp.deviceId = "" /\ resp.status = 200)
       => Body(resp) = Body(PlayerResponse("playerPlaylistById", resp.playlistId, FALSE, "items"))
    /\ (resp.op = "part006Playlist" /\ resp.deviceId = "" /\ resp.status = 200)
       => Body(resp) = Body(PlayerResponse("part006PlaylistById", resp.playlistId, TRUE, "items"))

====
